---- MODULE Spec2Model ----
(***************************************************************************)
(* A model of the SNMP manager session of src/src/lib.rs (SyncSession):    *)
(* send_and_recv, parse_oid, parse_response, parse_value, get, getnext,    *)
(* getbulk and walk.  The UDP socket and the agent behind it are the       *)
(* environment: every socket.send succeeds or fails, every socket.recv     *)
(* fails or yields a datagram drawn from Datagrams, which answers the      *)
(* request outstanding or, late, an earlier one.  The program is           *)
(* sequential; a step of the model is the code between two socket calls or *)
(* function returns.  A panic (unwrap on Err, index out of bounds) aborts  *)
(* the program: pc = "panic" is terminal.  UnitSpec applies the pure       *)
(* functions on their own.                                                 *)
(***************************************************************************)
EXTENDS Integers, Sequences, FiniteSets, TLC

VARIABLES
    version,     \* SyncSession.version, set by new()
    community,   \* SyncSession.community, set by new()
    pc,          \* position of the single thread of control
    op,          \* the public operation in progress: get, getnext, getbulk, walk
    request,     \* the v2c::Message the current operation built last
    payload,     \* `send`: the encoded request handed to send_and_recv
    i,           \* send_and_recv: the loop index of `for _ in 0..2`
    sent,        \* history: what each socket.send of this call was given, and its outcome
    recvd,       \* history: the outcome of each socket.recv of this call
    srResult,    \* the value send_and_recv returned
    gnResult,    \* the value getnext returned
    start,       \* walk: parse_oid(oid)
    current,     \* walk: the textual OID of the next GetNext
    result,      \* walk: the BTreeMap from suffix to value
    outcome,     \* what the public operation handed to its caller
    reqIds,      \* history: request-ids of the last two requests built on this session
    trail,       \* history: the bindings walk recorded, kept while the walk is orderly
    asked,       \* history: the GetNext requests walk issued, kept while it is orderly
    orderly,     \* history: every step of this walk succeeded with an increasing name
    failed,      \* history: a GetNext step of this walk returned Err
    stale,       \* history: the agent returned a name not greater than `current`
    args,        \* history: the arguments the public operation in progress was given
    seen,        \* history: walk: each name recorded so far, with the value it came with last
    last,        \* history: walk: the name recorded last, <<>> before the first
    owed,        \* environment: replies to earlier requests that may still arrive
    took,        \* history: the request the datagram send_and_recv accepted answers
    fn,          \* a function applied on its own: which one
    arg,         \* its argument
    ret          \* its result

vars == <<version, community, pc, op, request, payload, i, sent, recvd, srResult,
          gnResult, start, current, result, outcome, reqIds, trail, asked, orderly,
          failed, stale, args, seen, last, owed, took, fn, arg, ret>>

\* the variables of a function applied on its own
unit == <<fn, arg, ret>>

(***************************************************************************)
(* Text.  A String is a sequence of one-character strings.                 *)
(***************************************************************************)
Digits == <<"0", "1", "2", "3", "4", "5", "6", "7", "8", "9">>

DigitSet == {Digits[k] : k \in 1..10}

DigitVal(c) == (CHOOSE k \in 1..10 : Digits[k] = c) - 1

\* Integer::to_string / u32::to_string for a non-negative number
RECURSIVE ToDecimal(_)
ToDecimal(n) ==
    IF n < 10 THEN <<Digits[n + 1]>>
    ELSE ToDecimal(n \div 10) \o <<Digits[(n % 10) + 1]>>

RECURSIVE DecVal(_)
DecVal(ds) ==
    IF ds = <<>> THEN 0
    ELSE 10 * DecVal(SubSeq(ds, 1, Len(ds) - 1)) + DigitVal(ds[Len(ds)])

RECURSIVE StripZeros(_)
StripZeros(ds) ==
    IF Len(ds) > 1 /\ ds[1] = "0" THEN StripZeros(Tail(ds)) ELSE ds

RECURSIVE LexLess(_, _)
LexLess(a, b) ==
    IF b = <<>> THEN FALSE
    ELSE IF a = <<>> THEN TRUE
    ELSE IF a[1] # b[1] THEN a[1] < b[1]
    ELSE LexLess(Tail(a), Tail(b))

U32MaxDigits == <<4, 2, 9, 4, 9, 6, 7, 2, 9, 5>>

\* part.parse::<u32>().ok(): -1 stands for None
ParseU32(part) ==
    LET body == IF part # <<>> /\ part[1] = "+" THEN Tail(part) ELSE part
        sig  == StripZeros(body)
        nums == [k \in 1..Len(sig) |-> DigitVal(sig[k])]
    IN  IF body = <<>> \/ \E k \in 1..Len(body) : body[k] \notin DigitSet THEN -1
        ELSE IF Len(sig) > 10 \/ (Len(sig) = 10 /\ LexLess(U32MaxDigits, nums)) THEN -1
        ELSE DecVal(sig)

\* value.split('.'): the segments between dots, empty ones included; segment j
\* lies between dot j-1 and dot j, counting the ends of the text as dots
Split(s) ==
    LET dots == {k \in 1..Len(s) : s[k] = "."}
        n == Cardinality(dots) + 1
        DotAt(j) == IF j = 0 THEN 0
                    ELSE IF j = n THEN Len(s) + 1
                    ELSE CHOOSE d \in dots : Cardinality({e \in dots : e < d}) = j - 1
    IN  [j \in 1..n |-> SubSeq(s, DotAt(j - 1) + 1, DotAt(j) - 1)]

RECURSIVE FilterParsed(_)
FilterParsed(parts) ==
    IF parts = <<>> THEN <<>>
    ELSE LET v == ParseU32(parts[1])
         IN  (IF v = -1 THEN <<>> ELSE <<v>>) \o FilterParsed(Tail(parts))

\* SyncSession::parse_oid
parse_oid(value) == FilterParsed(Split(value))

\* .iter().map(ToString::to_string).collect::<Vec<_>>().join(".")
RECURSIVE JoinDots(_)
JoinDots(nums) ==
    IF nums = <<>> THEN <<>>
    ELSE IF Len(nums) = 1 THEN ToDecimal(nums[1])
    ELSE ToDecimal(nums[1]) \o <<".">> \o JoinDots(Tail(nums))

\* ObjectIdentifier::to_string, as walk uses it: the arcs joined by dots
OidToString(oid) == JoinDots(oid)

\* slice::starts_with
\* a test that takes no name for a prefix of itself
StartsWithProper(name, prefix) ==
    Len(prefix) < Len(name) /\ SubSeq(name, 1, Len(prefix)) = prefix

StartsWith(name, prefix) ==
    Len(prefix) <= Len(name) /\ SubSeq(name, 1, Len(prefix)) = prefix

\* slice::split_at(mid).1
SplitAtRight(name, mid) == SubSeq(name, mid + 1, Len(name))

(***************************************************************************)
(* The PDU model (rasn_snmp v2 / v2c) and results.                         *)
(***************************************************************************)
\* a VarBindValue: its variant, and its content as a sequence of numbers
Val(t, v) == [t |-> t, v |-> v]

Unspecified == Val("Unspecified", <<>>)

VarBind(name, value) == [name |-> name, value |-> value]

Pdu(kind, rid, es, ei, vbl) ==
    [kind |-> kind, request_id |-> rid, error_status |-> es, error_index |-> ei,
     variable_bindings |-> vbl]

BulkPdu(rid, nr, mr, vbl) ==
    [kind |-> "GetBulkRequest", request_id |-> rid, non_repeaters |-> nr,
     max_repetitions |-> mr, variable_bindings |-> vbl]

Message(ver, comm, data) == [version |-> ver, community |-> comm, data |-> data]

Ok(v) == [tag |-> "Ok", val |-> v]

Err(e) == [tag |-> "Err", val |-> e]

NoResult == [tag |-> "None", val |-> "none"]

Unit == [tag |-> "Unit", val |-> "()"]

NoMessage == Message(0, "", Pdu("None", 0, 0, 0, <<>>))

\* v2::Pdu::ERROR_STATUS_NO_ERROR
ERROR_STATUS_NO_ERROR == 0

\* v2c::Message::<T>::VERSION
V2C_VERSION == 1

\* the request-id every request builder writes: `request_id: 1`
REQUEST_ID == 1

(***************************************************************************)
(* The codec (rasn::ber), at the level of the fields of the message: the   *)
(* wire form carries the PDU's context tag and its three integer fields    *)
(* by position, as BER does.                                               *)
(***************************************************************************)
PduTag(kind) ==
    CASE kind = "GetRequest"     -> 160
      [] kind = "GetNextRequest" -> 161
      [] kind = "Response"       -> 162
      [] kind = "SetRequest"     -> 163
      [] kind = "GetBulkRequest" -> 165
      [] kind = "InformRequest"  -> 166
      [] kind = "Trap"           -> 167
      [] kind = "Report"         -> 168

PduKinds == {"GetRequest", "GetNextRequest", "Response", "SetRequest",
             "GetBulkRequest", "InformRequest", "Trap", "Report"}

KindOfTag(tag) == CHOOSE k \in PduKinds : PduTag(k) = tag

Wire(tag, ver, comm, f1, f2, f3, vbl) ==
    [tag |-> tag, ver |-> ver, comm |-> comm, f1 |-> f1, f2 |-> f2, f3 |-> f3,
     vbl |-> vbl]

\* bytes that are no BER encoding of a message
Garbage == Wire(0, 0, "", 0, 0, 0, <<>>)

\* rasn::ber::encode(&message) is Err for an OBJECT IDENTIFIER of fewer than two arcs
EncodeOk(m) ==
    \A k \in 1..Len(m.data.variable_bindings) :
        Len(m.data.variable_bindings[k].name) >= 2

\* rasn::ber::encode(&message).unwrap(), where it is Ok
Encode(m) ==
    IF m.data.kind = "GetBulkRequest"
    THEN Wire(PduTag(m.data.kind), m.version, m.community, m.data.request_id,
              m.data.non_repeaters, m.data.max_repetitions, m.data.variable_bindings)
    ELSE Wire(PduTag(m.data.kind), m.version, m.community, m.data.request_id,
              m.data.error_status, m.data.error_index, m.data.variable_bindings)

\* rasn::ber::decode::<v2c::Message<v2::Pdus>>
DecodePdus(bytes) ==
    IF \E k \in PduKinds : PduTag(k) = bytes.tag
    THEN LET kind == KindOfTag(bytes.tag)
         IN  Ok(Message(bytes.ver, bytes.comm,
                        IF kind = "GetBulkRequest"
                        THEN BulkPdu(bytes.f1, bytes.f2, bytes.f3, bytes.vbl)
                        ELSE Pdu(kind, bytes.f1, bytes.f2, bytes.f3, bytes.vbl)))
    ELSE Err("DecodeError")

\* rasn::ber::decode::<v2c::Message<v2::Response>>: only the Response tag is accepted
DecodeResponse(bytes) ==
    IF bytes.tag = PduTag("Response")
    THEN Ok(Message(bytes.ver, bytes.comm,
                    Pdu("Response", bytes.f1, bytes.f2, bytes.f3, bytes.vbl)))
    ELSE Err("DecodeError")

\* a parse_response that takes a nonzero error-status for a failure
parse_response_strict(message) ==
    IF message.data.kind = "Response"
          /\ message.data.error_status = ERROR_STATUS_NO_ERROR
    THEN Ok(message.data.variable_bindings)
    ELSE Err("ParseError")

\* SyncSession::parse_response
parse_response(message) ==
    IF message.data.kind = "Response"
    THEN Ok(message.data.variable_bindings)
    ELSE Err("ParseError")

(***************************************************************************)
(* Value presentation.                                                     *)
(***************************************************************************)
\* the character of an ASCII byte, for the bytes the model's strings use
AsciiChar(b) ==
    IF b \in 48..57 THEN Digits[b - 47]
    ELSE IF b = 46 THEN "."
    ELSE IF b = 43 THEN "+"
    ELSE IF b = 97 THEN "a"
    ELSE "x"

\* String::from_utf8 is Ok; the model's byte strings hold ASCII bytes or 255
Utf8Ok(bytes) == \A k \in 1..Len(bytes) : bytes[k] < 128

IntToString(n) == IF n < 0 THEN <<"-">> \o ToDecimal(0 - n) ELSE ToDecimal(n)

\* parse_value panics: String::from_utf8(..).unwrap() on bytes that are not UTF-8
parse_value_panics(var) == var.t = "String" /\ ~Utf8Ok(var.v)

\* SyncSession::parse_value, where it returns
parse_value(var) ==
    CASE var.t = "Integer"    -> IntToString(var.v[1])
      [] var.t = "String"     -> [k \in 1..Len(var.v) |-> AsciiChar(var.v[k])]
      [] var.t = "ObjectId"   -> JoinDots(var.v)
      [] var.t = "Address"    -> JoinDots(var.v)
      [] var.t = "Counter"    -> ToDecimal(var.v[1])
      [] var.t = "Ticks"      -> ToDecimal(var.v[1])
      [] var.t = "BigCounter" -> ToDecimal(var.v[1])
      [] var.t = "Unsigned"   -> ToDecimal(var.v[1])
      [] var.t = "Arbitrary"  -> <<>>
      [] OTHER                -> <<>>

(***************************************************************************)
(* The environment: what the callers pass in and what the agent sends.     *)
(***************************************************************************)
Versions == {0, 1}

Communities == {"public", "CampUs"}

Root == <<1, 3, 6, 1, 2, 1>>

\* ".1.3.6.1.2.1", "1.3.x.6.1.2.1" (the segment x is dropped) and "1" (one arc)
OidInputs ==
    { <<".">> \o JoinDots(Root),
      JoinDots(<<1, 3>>) \o <<".", "x", ".">> \o JoinDots(<<6, 1, 2, 1>>),
      <<"1">> }

BulkArgs == {<<0, 10>>, <<1, 0>>}

AgentNames ==
    { Root, Root \o <<1>>, Root \o <<10>>, <<1, 3, 6, 1, 3, 1>>, <<1, 3, 6, 1>> }

AgentValues == {Val("Integer", <<7>>), Val("String", <<255>>)}

\* error-status / error-index pairs of a response: noError, and noSuchName at binding 1
AgentErrors == {<<0, 0>>, <<2, 1>>}

\* every text the operations hand to parse_oid: the callers' inputs, and the names
\* of the agent as walk renders them
OidTexts == OidInputs \cup {OidToString(n) : n \in AgentNames}

\* parse_oid on those texts, computed once
Parsed == [s \in OidTexts |-> parse_oid(s)]

\* the longest binding list of a response
MaxBindings == 2

\* the bindings of a response: none, any single one, or Root.1 followed by more
AgentBindings ==
    {<<>>}
    \cup {<<VarBind(n, v)>> : n \in AgentNames, v \in AgentValues}
    \cup {[k \in 1..n |-> VarBind(IF k = 1 THEN Root \o <<1>> ELSE <<1, 3, 6, 1, 3, 1>>,
                                  Val("Integer", <<7>>))] : n \in 2..MaxBindings}

\* the datagrams socket.recv may yield while `req` is outstanding
Datagrams(req) ==
    {Garbage}
    \cup {Encode(Message(req.version, req.community,
                         Pdu("Response", req.data.request_id, e[1], e[2], vbl))) :
            e \in AgentErrors, vbl \in AgentBindings}
    \cup {Encode(Message(req.version, req.community,
                         Pdu(k, req.data.request_id, 0, 0, req.data.variable_bindings))) :
            k \in {"GetRequest", "Trap"}}

EmptyMap == <<>>

\* an insert that keeps the value a key already has
MapInsertKeep(m, key, value) ==
    [k \in (DOMAIN m) \cup {key} |-> IF k \in DOMAIN m THEN m[k] ELSE value]

\* BTreeMap::insert
MapInsert(m, key, value) ==
    [k \in (DOMAIN m) \cup {key} |-> IF k = key THEN value ELSE m[k]]

\* the state SyncSession::new leaves: a session, and no operation yet
Constructed ==
    /\ version \in Versions
    /\ community \in Communities
    /\ pc = "idle"
    /\ op = "none"
    /\ request = NoMessage
    /\ payload = Garbage
    /\ i = 0
    /\ sent = <<>>
    /\ recvd = <<>>
    /\ srResult = NoResult
    /\ gnResult = NoResult
    /\ start = <<>>
    /\ current = <<>>
    /\ result = EmptyMap
    /\ outcome = NoResult
    /\ reqIds = <<>>
    /\ trail = <<>>
    /\ asked = 0
    /\ orderly = TRUE
    /\ failed = FALSE
    /\ stale = FALSE
    /\ args = <<>>
    /\ seen = EmptyMap
    /\ last = <<>>
    /\ owed = 0
    /\ took = "none"

Init ==
    /\ Constructed
    /\ fn = "none"
    /\ arg = <<>>
    /\ ret = NoResult

(***************************************************************************)
(* send_and_recv                                                           *)
(***************************************************************************)
\* a loop that goes round once more
AttemptsThree == 2 + 1

\* `for _ in 0..2`
Attempts == 2

\* a retry that bumps the request-id of the payload
TransmittedBumped(k) == IF k = 0 THEN payload ELSE [payload EXCEPT !.f1 = @ + 1]

\* what socket.send(&send) is given on attempt k
Transmitted(k) == payload

\* a send failure that is retried like a receive failure
SendFailedRetried ==
    /\ i' = i + 1
    /\ IF i + 1 < Attempts
       THEN pc' = "send" /\ srResult' = srResult
       ELSE pc' = "sr_ret" /\ srResult' = Err("SendError")

\* `return Err(SnmpError::SendError)`
SendFailed ==
    /\ pc' = "sr_ret"
    /\ srResult' = Err("SendError")
    /\ i' = i

\* `Err(_) => continue`, and `Err(SnmpError::ReceiveError)` once the loop is over
ReceiveFailed ==
    /\ i' = i + 1
    /\ IF i + 1 < Attempts
       THEN pc' = "send" /\ srResult' = srResult
       ELSE pc' = "sr_ret" /\ srResult' = Err("ReceiveError")

\* a successful receive that goes round the loop like a failed one
ReceivedRetried(bytes) ==
    /\ i' = i + 1
    /\ IF i + 1 < Attempts
       THEN pc' = "send" /\ srResult' = srResult
       ELSE pc' = "sr_ret" /\ srResult' = Ok(bytes)

\* `Ok(_) => return Ok(recv.to_vec())`
Received(bytes) ==
    /\ pc' = "sr_ret"
    /\ srResult' = Ok(bytes)
    /\ i' = i

\* how many late replies the model follows; the agent sends no more than these
MaxLate == 1

Min(a, b) == IF a < b THEN a ELSE b

\* the sends of the call that got through and have had no reply yet: each may
\* still be answered once the call is over
Unanswered ==
    Cardinality({k \in 1..Len(sent) : sent[k].ok}) - (IF took = "fresh" THEN 1 ELSE 0)

\* the message is encoded (unwrap panics where that fails) and send_and_recv is
\* entered; what an earlier call left behind is gone
Submit(msg) ==
    /\ owed' = Min(MaxLate, owed + Unanswered)
    /\ took' = "none"
    /\ request' = msg
    /\ reqIds' = (IF Len(reqIds) < 2 THEN reqIds ELSE Tail(reqIds))
                 \o <<msg.data.request_id>>
    /\ i' = 0
    /\ sent' = <<>>
    /\ recvd' = <<>>
    /\ srResult' = NoResult
    /\ IF EncodeOk(msg)
       THEN pc' = "send" /\ payload' = Encode(msg)
       ELSE pc' = "panic" /\ payload' = Garbage

\* socket.recv yields the next datagram of the connected socket, whatever request
\* it answers: the one outstanding ("fresh") or, while one is owed, an earlier one
\* ("stale").  No line of the code looks at what a datagram answers, so both
\* kinds have the contents of Datagrams.
Arrivals == {"fresh"} \cup (IF owed > 0 THEN {"stale"} ELSE {})

Send ==
    /\ pc = "send"
    /\ \E ok \in BOOLEAN :
        /\ sent' = Append(sent, [bytes |-> Transmitted(i), ok |-> ok])
        /\ IF ok THEN pc' = "recv" /\ UNCHANGED <<i, srResult>> ELSE SendFailed
    /\ UNCHANGED <<version, community, op, request, payload, recvd, gnResult, start,
                   current, result, outcome, reqIds, trail, asked, orderly, failed, stale,
                   args, seen, last, owed, took, unit>>

Recv ==
    /\ pc = "recv"
    /\ \/ /\ recvd' = Append(recvd, FALSE)
          /\ ReceiveFailed
          /\ UNCHANGED <<owed, took>>
       \/ \E bytes \in Datagrams(request), from \in Arrivals :
            /\ recvd' = Append(recvd, TRUE)
            /\ Received(bytes)
            /\ took' = from
            /\ owed' = (IF from = "stale" THEN owed - 1 ELSE owed)
    /\ UNCHANGED <<version, community, op, request, payload, sent, gnResult, start,
                   current, result, outcome, reqIds, trail, asked, orderly, failed, stale,
                   args, seen, last, unit>>

(***************************************************************************)
(* The request builders of get, getnext and getbulk.                       *)
(***************************************************************************)
GetRequestMsg(oid) ==
    Message(version, community,
            Pdu("GetRequest", REQUEST_ID, ERROR_STATUS_NO_ERROR, 0,
                <<VarBind(Parsed[oid], Unspecified)>>))

GetNextRequestMsg(oid) ==
    Message(V2C_VERSION, community,
            Pdu("GetNextRequest", REQUEST_ID, ERROR_STATUS_NO_ERROR, 0,
                <<VarBind(Parsed[oid], Unspecified)>>))

\* a builder that fills the two fields the other way round
GetBulkRequestMsgSwapped(oid, non_repeaters, max_repetitions) ==
    Message(version, community,
            BulkPdu(REQUEST_ID, max_repetitions, non_repeaters,
                    <<VarBind(Parsed[oid], Unspecified)>>))

GetBulkRequestMsg(oid, non_repeaters, max_repetitions) ==
    Message(version, community,
            BulkPdu(REQUEST_ID, non_repeaters, max_repetitions,
                    <<VarBind(Parsed[oid], Unspecified)>>))

Idle == pc \in {"idle", "done"}

Panic == pc' = "panic"

NoWalk ==
    /\ start' = <<>>
    /\ current' = <<>>
    /\ result' = EmptyMap
    /\ trail' = <<>>
    /\ asked' = 0
    /\ orderly' = TRUE
    /\ failed' = FALSE
    /\ stale' = FALSE
    /\ seen' = EmptyMap
    /\ last' = <<>>

(***************************************************************************)
(* get                                                                     *)
(***************************************************************************)
CallGet ==
    /\ Idle
    /\ \E oid \in OidInputs :
        /\ args' = <<oid>>
        /\ Submit(GetRequestMsg(oid))
    /\ op' = "get"
    /\ gnResult' = NoResult
    /\ outcome' = NoResult
    /\ NoWalk
    /\ UNCHANGED <<version, community, unit>>

\* lines 143-149: both unwraps, then the bindings are printed and () is returned
GetFinish ==
    /\ pc = "sr_ret"
    /\ op = "get"
    /\ IF srResult.tag = "Err" THEN Panic /\ UNCHANGED outcome
       ELSE IF DecodeResponse(srResult.val).tag = "Err" THEN Panic /\ UNCHANGED outcome
       ELSE pc' = "done" /\ outcome' = Unit
    /\ UNCHANGED <<version, community, op, request, payload, i, sent, recvd, srResult,
                   gnResult, start, current, result, reqIds, trail, asked, orderly,
                   failed, stale, args, seen, last, owed, took, unit>>

(***************************************************************************)
(* getnext, called by the user or by walk                                  *)
(***************************************************************************)
CallGetNext ==
    /\ Idle
    /\ \E oid \in OidInputs :
        /\ args' = <<oid>>
        /\ Submit(GetNextRequestMsg(oid))
    /\ op' = "getnext"
    /\ gnResult' = NoResult
    /\ outcome' = NoResult
    /\ NoWalk
    /\ UNCHANGED <<version, community, unit>>

\* what getnext hands back once send_and_recv and decode have not panicked
GetNextValue(message) == parse_response(message)

\* lines 168-171
GetNextFinish ==
    /\ pc = "sr_ret"
    /\ op \in {"getnext", "walk"}
    /\ IF srResult.tag = "Err" THEN Panic /\ UNCHANGED <<gnResult, outcome>>
       ELSE IF DecodePdus(srResult.val).tag = "Err"
            THEN Panic /\ UNCHANGED <<gnResult, outcome>>
       ELSE /\ gnResult' = GetNextValue(DecodePdus(srResult.val).val)
            /\ IF op = "getnext"
               THEN pc' = "done" /\ outcome' = gnResult'
               ELSE pc' = "gn_ret" /\ UNCHANGED outcome
    /\ UNCHANGED <<version, community, op, request, payload, i, sent, recvd, srResult,
                   start, current, result, reqIds, trail, asked, orderly, failed, stale,
                   args, seen, last, owed, took, unit>>

(***************************************************************************)
(* getbulk                                                                 *)
(***************************************************************************)
CallGetBulk ==
    /\ Idle
    /\ \E oid \in OidInputs, a \in BulkArgs :
        /\ args' = <<oid, a[1], a[2]>>
        /\ Submit(GetBulkRequestMsg(oid, a[1], a[2]))
    /\ op' = "getbulk"
    /\ gnResult' = NoResult
    /\ outcome' = NoResult
    /\ NoWalk
    /\ UNCHANGED <<version, community, unit>>

\* lines 190-196: three unwraps, then every binding is rendered and printed
GetBulkFinish ==
    /\ pc = "sr_ret"
    /\ op = "getbulk"
    /\ IF srResult.tag = "Err" THEN Panic /\ UNCHANGED outcome
       ELSE IF DecodePdus(srResult.val).tag = "Err" THEN Panic /\ UNCHANGED outcome
       ELSE LET binds == parse_response(DecodePdus(srResult.val).val)
            IN  IF binds.tag = "Err" THEN Panic /\ UNCHANGED outcome
                ELSE IF \E k \in 1..Len(binds.val) : parse_value_panics(binds.val[k].value)
                     THEN Panic /\ UNCHANGED outcome
                ELSE pc' = "done" /\ outcome' = Unit
    /\ UNCHANGED <<version, community, op, request, payload, i, sent, recvd, srResult,
                   gnResult, start, current, result, reqIds, trail, asked, orderly,
                   failed, stale, args, seen, last, owed, took, unit>>

(***************************************************************************)
(* walk                                                                    *)
(***************************************************************************)
\* `var.name.starts_with(&start)`
InSubtree(name) == StartsWith(name, start)

\* a split one arc too far
WalkKeyShort(name) == SplitAtRight(name, Len(start) + 1)

\* `let (_, right) = var.name.split_at(start.len())`
WalkKey(name) == SplitAtRight(name, Len(start))

\* lines 200-206: the locals are set and the loop makes its first getnext
CallWalk ==
    /\ Idle
    /\ \E oid \in OidInputs :
        /\ args' = <<oid>>
        /\ start' = Parsed[oid]
        /\ current' = oid
        /\ Submit(GetNextRequestMsg(oid))
    /\ result' = EmptyMap
    /\ seen' = EmptyMap
    /\ last' = <<>>
    /\ op' = "walk"
    /\ gnResult' = NoResult
    /\ outcome' = NoResult
    /\ trail' = <<>>
    /\ asked' = 1
    /\ orderly' = TRUE
    /\ failed' = FALSE
    /\ stale' = FALSE
    /\ UNCHANGED <<version, community, unit>>

\* `Err(_) => {}`: the loop goes round with `current` as it was
WalkOnErr ==
    /\ Submit(GetNextRequestMsg(current))
    /\ orderly' = FALSE
    /\ failed' = TRUE
    /\ trail' = <<>>
    /\ asked' = 0
    /\ UNCHANGED <<start, current, result, outcome, stale, seen, last>>

\* `Ok(vars) => ...`: lines 208-218, and the next getnext where the loop goes on
WalkOnOk(binds) ==
    IF binds = <<>>
    THEN /\ Panic
         /\ UNCHANGED <<request, payload, i, sent, recvd, srResult, start, current,
                        result, outcome, reqIds, trail, asked, orderly, failed, stale,
                        seen, last, owed, took>>
    ELSE LET var == binds[1]
             late == ~LexLess(Parsed[current], var.name)
             inOrder == orderly /\ (trail = <<>> \/ LexLess(trail[Len(trail)].name, var.name))
         IN  /\ stale' = (stale \/ late)
             /\ IF InSubtree(var.name)
                THEN /\ result' = MapInsert(result, WalkKey(var.name), var.value)
                     /\ seen' = [n \in (DOMAIN seen) \cup {var.name} |->
                                    IF n = var.name THEN var.value ELSE seen[n]]
                     /\ last' = var.name
                     /\ current' = OidToString(var.name)
                     /\ Submit(GetNextRequestMsg(OidToString(var.name)))
                     /\ orderly' = inOrder
                     /\ trail' = (IF inOrder THEN Append(trail, var) ELSE <<>>)
                     /\ asked' = (IF inOrder THEN asked + 1 ELSE 0)
                     /\ UNCHANGED <<start, outcome, failed>>
                ELSE /\ pc' = "done"
                     /\ outcome' = Ok(result)
                     /\ UNCHANGED <<request, payload, i, sent, recvd, srResult, start,
                                    current, result, reqIds, trail, asked, orderly,
                                    failed, seen, last, owed, took>>

\* one turn of the loop of walk, from the return of getnext
WalkStep ==
    /\ pc = "gn_ret"
    /\ op = "walk"
    /\ IF gnResult.tag = "Ok" THEN WalkOnOk(gnResult.val) ELSE WalkOnErr
    /\ gnResult' = NoResult
    /\ UNCHANGED <<version, community, op, args, unit>>

Next ==
    \/ CallGet
    \/ CallGetNext
    \/ CallGetBulk
    \/ CallWalk
    \/ Send
    \/ Recv
    \/ GetFinish
    \/ GetNextFinish
    \/ GetBulkFinish
    \/ WalkStep

Spec == Init /\ [][Next]_vars

\* Walks of one v2c session.  The thread runs on whenever it can: no call blocks
\* for ever (recv has a timeout), so the steps of the program are weakly fair.
WalkInit == Init /\ version = V2C_VERSION /\ community = "public"

WalkNext ==
    \/ CallWalk
    \/ Send
    \/ Recv
    \/ GetNextFinish
    \/ WalkStep

FairSpec == WalkInit /\ [][WalkNext]_vars /\ WF_vars(WalkNext)

(***************************************************************************)
(* parse_oid, the subtree test of walk and parse_value, each applied on    *)
(* its own to an argument drawn from a bounded set.                        *)
(***************************************************************************)
\* the variables of the session and its operations
program == <<version, community, pc, op, request, payload, i, sent, recvd, srResult,
             gnResult, start, current, result, outcome, reqIds, trail, asked, orderly,
             failed, stale, args, seen, last, owed, took>>

\* the longest text given to parse_oid
MaxText == 3

\* a digit, another digit, the separator, and a character that is neither
TextChars == {"1", "3", ".", "x"}

Texts == OidInputs \cup UNION {[1..n -> TextChars] : n \in 0..MaxText}

\* the longest of the names made of the arcs 1 and 3
MaxArcs == 2

\* names and roots: every prefix of Root.1.1, the sibling 1.3.6.1.3.1, short names
TestNames ==
    {SubSeq(Root \o <<1, 1>>, 1, n) : n \in 0..(Len(Root) + 2)}
    \cup {<<1, 3, 6, 1, 3, 1>>}
    \cup UNION {[1..n -> {1, 3}] : n \in 0..MaxArcs}

\* one or more values of every variant parse_value tells apart, and two it does not
TestValues ==
    {Val("Integer", <<n>>) : n \in {0 - 5, 0, 42}}
    \cup {Val("String", b) : b \in {<<>>, <<49, 46, 51>>, <<255>>}}
    \cup {Val("ObjectId", Root), Val("Address", <<10, 123, 0, 20>>)}
    \cup {Val(t, <<n>>) : t \in {"Counter", "Ticks", "BigCounter", "Unsigned"}, n \in {0, 7}}
    \cup {Val("Arbitrary", b) : b \in {<<>>, <<1, 2>>}}
    \cup {Unspecified, Val("NoSuchObject", <<>>)}

UnitInputs ==
    [parse_oid |-> Texts, starts_with |-> TestNames \X TestNames, parse_value |-> TestValues]

\* a panic of the function applied
Panicked == [tag |-> "Panic", val |-> "none"]

UnitInit ==
    /\ Constructed
    /\ version = V2C_VERSION
    /\ community = "public"
    /\ fn \in DOMAIN UnitInputs
    /\ arg \in UnitInputs[fn]
    /\ ret = NoResult

\* `Self::parse_oid(oid)`
ApplyParseOid ==
    /\ fn = "parse_oid"
    /\ ret = NoResult
    /\ ret' = Ok(parse_oid(arg))
    /\ UNCHANGED <<program, fn, arg>>

\* `var.name.starts_with(&start)` with arg = <<var.name, start>>
ApplyStartsWith ==
    /\ fn = "starts_with"
    /\ ret = NoResult
    /\ ret' = Ok(StartsWith(arg[1], arg[2]))
    /\ UNCHANGED <<program, fn, arg>>

\* `Self::parse_value(&var.value)`
ApplyParseValue ==
    /\ fn = "parse_value"
    /\ ret = NoResult
    /\ ret' = (IF parse_value_panics(arg) THEN Panicked ELSE Ok(parse_value(arg)))
    /\ UNCHANGED <<program, fn, arg>>

UnitNext ==
    \/ ApplyParseOid
    \/ ApplyStartsWith
    \/ ApplyParseValue

UnitSpec == UnitInit /\ [][UnitNext]_vars

(***************************************************************************)
(* Properties.                                                             *)
(***************************************************************************)
Returned(e) == srResult.tag = "Err" /\ srResult.val = e

AllSendsOk == \A k \in 1..Len(sent) : sent[k].ok

AllRecvsFailed == \A k \in 1..Len(recvd) : ~recvd[k]

\* C1: send_and_recv returns ReceiveError exactly when two sends succeeded and the
\* two receives after them failed: if every send succeeds and every receive fails,
\* the call ends with ReceiveError (not SendError) after 2 sends and 2 receives.
C1_ReceiveErrorAfterTwoAttempts ==
    /\ Returned("ReceiveError") =>
          Len(sent) = 2 /\ Len(recvd) = 2 /\ AllSendsOk /\ AllRecvsFailed
    /\ (srResult.tag # "None" /\ AllSendsOk /\ AllRecvsFailed) =>
          Returned("ReceiveError") /\ Len(sent) = 2 /\ Len(recvd) = 2

C1_Witness ==
    pc = "sr_ret" /\ Returned("ReceiveError") /\ AllSendsOk /\ recvd = <<FALSE, FALSE>>

\* C2: once the agent has returned a name that is not greater than the OID walk
\* asked about (the echo of the request is the first case), and the steps since
\* have not failed, walk comes to an end.
C2_WalkTerminates ==
    (op = "walk" /\ stale) ~> (pc \in {"done", "panic"} \/ failed)

\* C3: when the GetNext step of walk has failed (getnext handed walk an Err), the
\* next thing walk does is return that failure to its caller: it issues no new
\* GetNext for the same current OID.
C3_WalkStopsOnFailedStep ==
    [][(op = "walk" /\ pc = "gn_ret" /\ gnResult.tag = "Err")
          => (pc' = "done" /\ outcome'.tag = "Err" /\ UNCHANGED <<request, sent>>)]_vars

\* the mapping the recorded bindings stand for: suffix beyond the root -> value
TrailKey(j) == SubSeq(trail[j].name, Len(start) + 1, Len(trail[j].name))

TrailMap ==
    [key \in {TrailKey(j) : j \in 1..Len(trail)} |->
        trail[CHOOSE j \in 1..Len(trail) : TrailKey(j) = key].value]

\* C4: a walk whose agent answered with increasing names n1..nk inside the subtree
\* and then a name outside it returns exactly the k bindings, keyed by the arcs
\* beyond the root, after k+1 GetNext requests.
C4_WalkCollectsSubtree ==
    (op = "walk" /\ pc = "done" /\ orderly) =>
        /\ outcome.tag = "Ok"
        /\ outcome.val = TrailMap
        /\ Cardinality(DOMAIN outcome.val) = Len(trail)
        /\ asked = Len(trail) + 1

C4_Witness ==
    /\ op = "walk" /\ pc = "done" /\ orderly
    /\ Len(trail) = 2
    /\ DOMAIN outcome.val = {<<1>>, <<10>>}

\* C5: a failed send is the last socket call of send_and_recv: the call has
\* returned SendError, and every send before it was followed by one failed receive.
C5_SendFailureEndsCall ==
    \A k \in 1..Len(sent) :
        ~sent[k].ok =>
            /\ k = Len(sent)
            /\ Len(recvd) = k - 1
            /\ Returned("SendError")
            /\ pc \notin {"send", "recv"}

C5_Witness ==
    /\ pc = "sr_ret"
    /\ Len(sent) = 2 /\ sent[1].ok /\ ~sent[2].ok
    /\ recvd = <<FALSE>>

NonResponseReceived ==
    /\ pc = "sr_ret"
    /\ srResult.tag = "Ok"
    /\ DecodePdus(srResult.val).tag = "Ok"
    /\ DecodePdus(srResult.val).val.data.kind # "Response"

\* C6: get, getnext and getbulk, given a well-formed message whose PDU is not a
\* response, return an error value to the caller.
C6_NonResponseIsAnError ==
    [][(NonResponseReceived /\ op \in {"get", "getnext", "getbulk"})
          => (pc' = "done" /\ outcome'.tag = "Err")]_vars

\* C7: when send_and_recv returned Err or the datagram does not decode, getnext
\* returns an Err value to its caller.
C7_GetNextReturnsFailures ==
    [][(pc = "sr_ret" /\ op = "getnext"
          /\ (srResult.tag = "Err" \/ DecodePdus(srResult.val).tag = "Err"))
          => (pc' = "done" /\ outcome'.tag = "Err")]_vars

\* C8: of two requests built one after the other on a session, the later one has
\* the greater request-id.
C8_RequestIdsIncrease ==
    Len(reqIds) = 2 => reqIds[2] > reqIds[1]

\* C9: every request put on the wire carries the version and the community of
\* the session, as does the message it encodes.
C9_RequestCarriesSession ==
    \A k \in 1..Len(sent) :
        /\ sent[k].bytes.ver = version /\ sent[k].bytes.comm = community
        /\ request.version = version /\ request.community = community

\* C10: every send of one send_and_recv call is given the same bytes, the encoded
\* request; the retry after a failed receive repeats the first payload.
C10_RetryRepeatsPayload ==
    \A k \in 1..Len(sent) :
        sent[k].bytes = sent[1].bytes /\ sent[k].bytes = Encode(request)

C10_Witness ==
    Len(sent) = 2 /\ recvd = <<FALSE>> /\ sent[1].ok /\ sent[2].ok

\* the message that the datagram send_and_recv accepted decodes to
Answer == DecodePdus(srResult.val).val

\* the same message as an agent that reports no error would have sent it
WithoutError(message) ==
    [message EXCEPT !.data.error_status = ERROR_STATUS_NO_ERROR, !.data.error_index = 0]

\* C11: for a GetResponse with a nonzero error-status, what getnext hands its
\* caller shows the error-status and error-index of the agent: the caller can
\* tell it from what the same response without the error would have produced.
C11_GetNextReportsErrorStatus ==
    (op = "getnext" /\ pc = "done" /\ Answer.data.kind = "Response"
        /\ Answer.data.error_status # ERROR_STATUS_NO_ERROR)
        => outcome # GetNextValue(WithoutError(Answer))

\* C12: the GetBulkRequest that getbulk builds and sends carries the non_repeaters
\* and max_repetitions it was given in the fields of those names, and one binding:
\* the requested OID with an Unspecified value.
C12_GetBulkPassesArguments ==
    op = "getbulk" =>
        \A k \in 1..Len(sent) :
            LET m == DecodePdus(sent[k].bytes).val
            IN  /\ m = request
                /\ m.data.kind = "GetBulkRequest"
                /\ m.data.non_repeaters = args[2]
                /\ m.data.max_repetitions = args[3]
                /\ m.data.variable_bindings = <<VarBind(parse_oid(args[1]), Unspecified)>>

C12_Witness ==
    /\ op = "getbulk" /\ pc = "recv"
    /\ args[2] = 0 /\ args[3] = 10
    /\ sent[1].ok /\ sent[1].bytes.f2 = 0 /\ sent[1].bytes.f3 = 10

\* C13: every Oid parse_oid produces has at least one arc, whatever the text:
\* also where every dot-separated segment is empty or not a number.
C13_ParsedOidHasAnArc ==
    (fn = "parse_oid" /\ ret.tag = "Ok") => Len(ret.val) >= 1

\* the arcs of root are the first arcs of name
IsPrefix(root, name) ==
    Len(root) <= Len(name) /\ \A k \in 1..Len(root) : name[k] = root[k]

\* C14: the subtree test of walk accepts a name exactly when the arcs of the root
\* are an equal or proper prefix of the arcs of the name: 1.3.6.1.2.1 accepts
\* 1.3.6.1.2.1.1.1 and itself, rejects 1.3.6.1.3.1 and every shorter name.
C14_SubtreeTestIsPrefixTest ==
    (fn = "starts_with" /\ ret.tag = "Ok") =>
        /\ ret.val <=> IsPrefix(arg[2], arg[1])
        /\ arg = <<Root \o <<1, 1>>, Root>> => ret.val
        /\ arg = <<Root, Root>> => ret.val
        /\ arg = <<<<1, 3, 6, 1, 3, 1>>, Root>> => ~ret.val
        /\ (arg[2] = Root /\ Len(arg[1]) < Len(Root)) => ~ret.val

C14_Witness ==
    /\ fn = "starts_with" /\ ret.tag = "Ok"
    /\ arg = <<<<1, 3, 6, 1, 2, 1, 1, 1>>, <<1, 3, 6, 1, 2, 1>>>>
    /\ ret.val

\* C15: parse_value renders an Opaque (Arbitrary) value as a text that is not empty.
C15_OpaqueRendersNonEmpty ==
    (fn = "parse_value" /\ ret.tag = "Ok" /\ arg.t = "Arbitrary") => ret.val # <<>>

\* C16: a nonzero error-status is not fatal.  Whatever the error-status and
\* error-index of a Response, parse_response (here: as getnext returns it) yields
\* Ok with the bindings of the response as they came, in their order; a PDU that
\* is not a Response yields an error.
C16_ErrorStatusIsNotFatal ==
    (op = "getnext" /\ pc = "done") =>
        IF Answer.data.kind = "Response"
        THEN outcome.tag = "Ok" /\ outcome.val = srResult.val.vbl
        ELSE outcome.tag = "Err" /\ outcome.val = "ParseError"

C16_Witness ==
    /\ op = "getnext" /\ pc = "done"
    /\ Answer.data.kind = "Response"
    /\ Answer.data.error_status = 2 /\ Answer.data.error_index = 1
    /\ outcome.tag = "Ok" /\ Len(outcome.val) = 2
    /\ outcome.val[1].name # outcome.val[2].name

\* the arcs of a name beyond the length of the root
Suffix(name) == SubSeq(name, Len(start) + 1, Len(name))

\* C17: at every point of a walk, the keys of `result` are the arc suffixes of the
\* names the agent returned inside the subtree, each mapped to the value that came
\* with the latest occurrence of its name; `current` is the root OID as given or
\* the name recorded last; and while the names have been strictly increasing there
\* is one entry for each in-subtree reply, the keys increasing in reply order.
C17_WalkInvariants ==
    op = "walk" =>
        /\ DOMAIN result = {Suffix(n) : n \in DOMAIN seen}
        /\ \A n \in DOMAIN seen : IsPrefix(start, n) /\ result[Suffix(n)] = seen[n]
        /\ IF last = <<>>
           THEN current = args[1] /\ parse_oid(current) = start
           ELSE current = OidToString(last) /\ last \in DOMAIN seen
        /\ orderly =>
              /\ Cardinality(DOMAIN result) = Len(trail)
              /\ \A j, k \in 1..Len(trail) :
                    j < k => LexLess(TrailKey(j), TrailKey(k))
              /\ \A j \in 1..Len(trail) : result[TrailKey(j)] = trail[j].value

C17_Witness ==
    /\ op = "walk" /\ stale /\ ~orderly
    /\ Cardinality(DOMAIN result) = 2
    /\ last = Root \o <<1>>
    /\ current = OidToString(last)
    /\ result[<<1>>] = Val("String", <<255>>)

\* C18: a call of send_and_recv sends at most twice and never tries to receive
\* more often than it has sent with success; the first successful receive ends
\* the call with Ok and no further send, so a reply to the first attempt costs
\* one send.
C18_SendsAndReceivesBounded ==
    /\ Len(sent) <= 2
    /\ Len(recvd) <= Cardinality({k \in 1..Len(sent) : sent[k].ok})
    /\ \A k \in 1..Len(recvd) :
          recvd[k] =>
              /\ k = Len(recvd)
              /\ Len(sent) = k
              /\ srResult.tag = "Ok"
              /\ pc \notin {"send", "recv"}
    /\ recvd = <<TRUE>> => Len(sent) = 1

C18_Witness ==
    pc = "sr_ret" /\ recvd = <<TRUE>> /\ Len(sent) = 1 /\ srResult.tag = "Ok"

\* C19: with replies that may come late, the datagram an operation accepts as its
\* response answers the request of that operation: a reply to the request of an
\* earlier operation is never accepted by a later get, getnext, getbulk or step
\* of walk.
C19_NoLateReplyAccepted ==
    (op \in {"get", "getnext", "getbulk", "walk"} /\ srResult.tag = "Ok") => took = "fresh"

====
